---------------------------- MODULE Spec2Model ----------------------------
(***************************************************************************)
(* A model of the nostr-types event core: the tag codec (types/tag.rs),    *)
(* event construction and verification, and the proof-of-work miner        *)
(* (types/event.rs).                                                       *)
(*                                                                         *)
(* Strings are sequences of symbols.  Where the code looks inside a        *)
(* string (decimal digits, hex digits, the ':' of an address) a symbol is  *)
(* one character; a run of characters no code looks into is kept as one    *)
(* symbol ("wss://r").  Option<T> is a sequence of length 0 (None) or 1    *)
(* (Some).  A Result is a record with the field ok.                        *)
(***************************************************************************)
EXTENDS Integers, Sequences, FiniteSets, TLC

VARIABLES
    \* ---- tag codec (tag.rs)
    tpc,        \* position of the codec run: "start", "encoded", "decoded"
    tag,        \* the Tag value handed to the encoder
    wire,       \* the wire array (a sequence of strings)
    decoded,    \* Result<Tag, _> of TagVisitor::visit_seq; NoResult before
    tname,      \* Option: the result of Tag::tagname(tag), or "panic"
    \* ---- event construction and verification (event.rs)
    epc,        \* "pre" before Event::new, "built" after
    pre,        \* the PreEvent handed to Event::new
    privkey,    \* the private key handed to Event::new
    event,      \* the Event under test (fields may be changed by test code)
    built,      \* the Event as Event::new returned it
    maxtime,    \* the Option<Unixtime> of the last Event::verify call
    vres,       \* the result of the last Event::verify call, NoResult before
    query,      \* the read-only function last called on the event, "" before
    qres,       \* what that function returned
    \* ---- proof of work (event.rs, Event::new_with_pow)
    sha,        \* SHA-256 as sampled so far: serialized text -> leading bytes
    overflow_checks, \* whether the build panics on integer overflow
    zero_bits,  \* the target
    sender,     \* work_sender: "none", "open" (receiver alive), "closed"
    cores,      \* num_cpus::get()
    input,      \* the PreEvent of the main thread, nonce tag appended
    mpc,        \* main thread: "spawn", "join", "done"
    joined,     \* number of join handles already joined
    wpc,        \* worker -> position in the closure
    attempt,    \* worker -> its attempt counter
    lz,         \* worker -> leading_zeroes of its last hash
    quitting,   \* AtomicBool
    nonce,      \* AtomicU64
    best_work,  \* AtomicU8
    result      \* the Event returned by new_with_pow, NoResult before

tagVars == <<tpc, tag, wire, decoded, tname>>
evVars  == <<epc, pre, privkey, event, built, maxtime, vres, query, qres>>
powVars == <<overflow_checks, zero_bits, sender, cores, input, mpc, joined, wpc,
             attempt, lz, quitting, nonce, best_work, result>>
vars    == <<tagVars, evVars, powVars, sha>>

-----------------------------------------------------------------------------
(* Bounds of the model *)

\* u64::MAX and u32::MAX, narrowed to the widest integer TLC represents
U64Max == 2147483647
U32Max == 2147483647
\* u8::MAX
U8Max == 255
\* the length of an Id and of a public key in bytes
IdLen == 32

\* the longest array of strings handed to the decoder, after the tag name
MaxElems == 2
\* the number of attempts the miner's workers make together before the model
\* stops them
MaxAttempts == 3
\* the largest number of processing units
MaxCores == 2

-----------------------------------------------------------------------------
(* Option, Result, strings *)

None == <<>>
Some(x) == <<x>>
IsSome(o) == Len(o) = 1

NoResult == [ok |-> FALSE, none |-> TRUE]
Ok(t) == [ok |-> TRUE, tag |-> t]
Err(e) == [ok |-> FALSE, err |-> e]

\* a string of one symbol
Str(a) == <<a>>
EmptyStr == <<>>

DigitChars == <<"0", "1", "2", "3", "4", "5", "6", "7", "8", "9">>
HexChars == <<"0", "1", "2", "3", "4", "5", "6", "7", "8", "9",
              "a", "b", "c", "d", "e", "f">>
UpperHexChars == <<"0", "1", "2", "3", "4", "5", "6", "7", "8", "9",
                   "A", "B", "C", "D", "E", "F">>

IsDigit(c) == \E i \in 1..10 : DigitChars[i] = c
DigitVal(c) == (CHOOSE i \in 1..10 : DigitChars[i] = c) - 1
IsHexChar(c) == \E i \in 1..16 : HexChars[i] = c \/ UpperHexChars[i] = c
HexVal(c) == (CHOOSE i \in 1..16 : HexChars[i] = c \/ UpperHexChars[i] = c) - 1

\* format!("{}", n) of an unsigned integer
RECURSIVE Dec(_)
Dec(n) == IF n < 10 THEN <<DigitChars[n + 1]>>
          ELSE Dec(n \div 10) \o <<DigitChars[(n % 10) + 1]>>

\* format!("{}", n) of a signed integer
DecSigned(n) == IF n < 0 THEN <<"-">> \o Dec(0 - n) ELSE Dec(n)

RECURSIVE DigitsValue(_, _, _)
\* the value of a run of digits, None when a symbol is no digit or the value
\* exceeds max (checked before the multiplication, as checked_mul does)
DigitsValue(s, acc, max) ==
    IF s = <<>> THEN Some(acc)
    ELSE IF ~IsDigit(Head(s)) THEN None
    ELSE IF acc > (max - DigitVal(Head(s))) \div 10 THEN None
    ELSE DigitsValue(Tail(s), acc * 10 + DigitVal(Head(s)), max)

\* str::parse::<uN>(): an optional '+', then one or more digits, in range
ParseUnsigned(s, max) ==
    LET body == IF s # <<>> /\ Head(s) = "+" THEN Tail(s) ELSE s
    IN IF body = <<>> THEN None ELSE DigitsValue(body, 0, max)

\* str::parse::<i64>(): an optional sign, then one or more digits, in range
ParseSigned(s, max) ==
    LET neg == s # <<>> /\ Head(s) = "-"
        body == IF s # <<>> /\ Head(s) \in {"+", "-"} THEN Tail(s) ELSE s
        v == IF body = <<>> THEN None ELSE DigitsValue(body, 0, max)
    IN IF IsSome(v) /\ neg THEN Some(0 - v[1]) ELSE v

\* hex::encode: two lower-case hex digits per byte
RECURSIVE Hex(_)
Hex(bytes) ==
    IF bytes = <<>> THEN <<>>
    ELSE <<HexChars[(Head(bytes) \div 16) + 1], HexChars[(Head(bytes) % 16) + 1]>>
         \o Hex(Tail(bytes))

IsHexString(s) == \A i \in 1..Len(s) : IsHexChar(s[i])

\* hex::decode of a hex string of even length
HexDecode(s) ==
    [i \in 1..(Len(s) \div 2) |-> HexVal(s[2 * i - 1]) * 16 + HexVal(s[2 * i])]

\* str::split(sep): the pieces between the separators (always at least one)
RECURSIVE Split(_, _)
Split(s, sep) ==
    IF \A i \in 1..Len(s) : s[i] # sep THEN <<s>>
    ELSE LET k == CHOOSE i \in 1..Len(s) :
                      s[i] = sep /\ \A j \in 1..(i - 1) : s[j] # sep
         IN <<SubSeq(s, 1, k - 1)>> \o Split(SubSeq(s, k + 1, Len(s)), sep)

-----------------------------------------------------------------------------
(* The types a tag is made of.  Their own (de)serializers are not part of  *)
(* tag.rs; they are modelled from the data model: an Id is 32 bytes shown  *)
(* as 64 hex digits, a PublicKeyHex is a string of 64 hex digits, a        *)
(* SignatureHex one of 128, an UncheckedUrl any string, a Unixtime a       *)
(* signed integer, an EventKind its u32 number.                            *)

\* Id([u8; 32]).  Of a digest the model samples only the leading bytes; the
\* field pre stands for the bytes it does not enumerate: two digests are
\* equal only if they are digests of the same text (collision resistance).
\* An Id given as bytes has no pre.
IdOfBytes(bytes) == [bytes |-> bytes, pre |-> <<>>]

\* Id: Serialize
Id_serialize(id) == Hex(id.bytes)
\* Id: Deserialize (a string that is not 32 bytes of hex is an error)
Id_valid(s) == Len(s) = 2 * IdLen /\ IsHexString(s)
Id_deserialize(s) == IdOfBytes(HexDecode(s))

\* PublicKeyHex::try_from_str, and its Deserialize: the string is kept as is
PublicKeyHex_valid(s) == Len(s) = 2 * IdLen /\ IsHexString(s)

\* SignatureHex: Deserialize
SignatureHex_valid(s) == Len(s) = 4 * IdLen /\ IsHexString(s)

\* Unixtime: Serialize and Deserialize
Unixtime_serialize(t) == DecSigned(t)
Unixtime_valid(s) == IsSome(ParseSigned(s, U64Max))
Unixtime_deserialize(s) == ParseSigned(s, U64Max)[1]

\* One term of a delegation condition string: kind=N, created_at>N, created_at<N
ConditionTerm(s) ==
    IF s = <<>> \/ Head(s) \notin {"kind=", "created_at>", "created_at<"}
         \/ ~IsSome(ParseUnsigned(Tail(s), U32Max))
    THEN None
    ELSE Some([key |-> Head(s), n |-> ParseUnsigned(Tail(s), U32Max)[1]])

\* DelegationConditions::try_from_str: terms joined by '&'; the string is kept
DelegationConditions_valid(s) ==
    \A i \in 1..Len(Split(s, "&")) : IsSome(ConditionTerm(Split(s, "&")[i]))

DelegationConditions_parse(s) ==
    LET terms == [i \in 1..Len(Split(s, "&")) |-> ConditionTerm(Split(s, "&")[i])[1]]
        pick(k) == IF \E i \in 1..Len(terms) : terms[i].key = k
                   THEN Some(terms[CHOOSE i \in 1..Len(terms) :
                                   terms[i].key = k
                                   /\ \A j \in (i + 1)..Len(terms) : terms[j].key # k].n)
                   ELSE None
    IN [kind |-> pick("kind="), created_after |-> pick("created_at>"),
        created_before |-> pick("created_at<"), full_string |-> s]

\* DelegationConditions::as_string
DelegationConditions_as_string(c) == c.full_string

-----------------------------------------------------------------------------
(* enum Tag (tag.rs, 13-122) *)

Address(kind, pubkey, d, relay_url) ==
    [variant |-> "Address", kind |-> kind, pubkey |-> pubkey, d |-> d,
     relay_url |-> relay_url]
ContentWarning(msg) == [variant |-> "ContentWarning", s |-> msg]
Delegation(pubkey, conditions, sig) ==
    [variant |-> "Delegation", pubkey |-> pubkey, conditions |-> conditions,
     sig |-> sig]
EventTag(id, recommended_relay_url, marker) ==
    [variant |-> "Event", id |-> id,
     recommended_relay_url |-> recommended_relay_url, marker |-> marker]
Expiration(time) == [variant |-> "Expiration", time |-> time]
Pubkey(pubkey, recommended_relay_url, petname) ==
    [variant |-> "Pubkey", pubkey |-> pubkey,
     recommended_relay_url |-> recommended_relay_url, petname |-> petname]
Hashtag(t) == [variant |-> "Hashtag", s |-> t]
Reference(url, marker) == [variant |-> "Reference", url |-> url, marker |-> marker]
Geohash(g) == [variant |-> "Geohash", s |-> g]
Identifier(id) == [variant |-> "Identifier", s |-> id]
Subject(sub) == [variant |-> "Subject", s |-> sub]
Nonce(n, target) == [variant |-> "Nonce", nonce |-> n, target |-> target]
Parameter(param) == [variant |-> "Parameter", s |-> param]
Title(title) == [variant |-> "Title", s |-> title]
Other(name, data) == [variant |-> "Other", tag |-> name, data |-> data]
Empty == [variant |-> "Empty"]

\* the result of a call that panicked
Panic == <<"panic">>

\* Tag::tagname: Some(name), or Panic for Tag::Empty
Tag_tagname(t) ==
    CASE t.variant = "Address" -> Some(Str("address"))
      [] t.variant = "ContentWarning" -> Some(Str("content-warning"))
      [] t.variant = "Delegation" -> Some(Str("delegation"))
      [] t.variant = "Event" -> Some(Str("e"))
      [] t.variant = "Expiration" -> Some(Str("expiration"))
      [] t.variant = "Pubkey" -> Some(Str("p"))
      [] t.variant = "Hashtag" -> Some(Str("t"))
      [] t.variant = "Reference" -> Some(Str("r"))
      [] t.variant = "Geohash" -> Some(Str("g"))
      [] t.variant = "Identifier" -> Some(Str("d"))
      [] t.variant = "Subject" -> Some(Str("subject"))
      [] t.variant = "Nonce" -> Some(Str("nonce"))
      [] t.variant = "Parameter" -> Some(Str("parameter"))
      [] t.variant = "Title" -> Some(Str("title"))
      [] t.variant = "Other" -> Some(t.tag)
      [] t.variant = "Empty" -> Panic

\* OptionalPair with the placeholder of an absent relay url forgotten
OptionalPair_no_placeholder(url, later) ==
    (IF IsSome(url) THEN <<url[1]>> ELSE <<>>)
    \o (IF IsSome(later) THEN <<later[1]>> ELSE <<>>)

\* the encoding of an Event or Pubkey tag after its first two elements: the
\* relay url, or "" in its place when only the later field is present, then
\* the later field
OptionalPair(url, later) ==
    (IF IsSome(url) THEN <<url[1]>>
     ELSE IF IsSome(later) THEN <<EmptyStr>> ELSE <<>>)
    \o (IF IsSome(later) THEN <<later[1]>> ELSE <<>>)

\* impl Serialize for Tag: the wire array
Tag_serialize(t) ==
    CASE t.variant = "Address" ->
            <<Str("a"), Dec(t.kind) \o <<":">> \o t.pubkey \o <<":">> \o t.d>>
            \o (IF IsSome(t.relay_url) THEN <<t.relay_url[1]>> ELSE <<>>)
      [] t.variant = "ContentWarning" -> <<Str("content-warning"), t.s>>
      [] t.variant = "Delegation" ->
            <<Str("delegation"), t.pubkey,
              DelegationConditions_as_string(t.conditions), t.sig>>
      [] t.variant = "Event" ->
            <<Str("e"), Id_serialize(t.id)>>
            \o OptionalPair(t.recommended_relay_url, t.marker)
      [] t.variant = "Expiration" ->
            <<Str("expiration"), Unixtime_serialize(t.time)>>
      [] t.variant = "Pubkey" ->
            <<Str("p"), t.pubkey>>
            \o OptionalPair(t.recommended_relay_url, t.petname)
      [] t.variant = "Hashtag" -> <<Str("t"), t.s>>
      [] t.variant = "Reference" ->
            <<Str("r"), t.url>>
            \o (IF IsSome(t.marker) THEN <<t.marker[1]>> ELSE <<>>)
      [] t.variant = "Geohash" -> <<Str("g"), t.s>>
      [] t.variant = "Identifier" -> <<Str("d"), t.s>>
      [] t.variant = "Subject" -> <<Str("subject"), t.s>>
      [] t.variant = "Nonce" ->
            <<Str("nonce"), t.nonce>>
            \o (IF IsSome(t.target) THEN <<t.target[1]>> ELSE <<>>)
      [] t.variant = "Parameter" -> <<Str("parameter"), t.s>>
      [] t.variant = "Title" -> <<Str("title"), t.s>>
      [] t.variant = "Other" -> <<t.tag>> \o t.data
      [] t.variant = "Empty" -> <<>>

\* SeqAccess::next_element for a String or UncheckedUrl at position i of w:
\* Some(element), or None at the end of the array
NextElement(w, i) == IF i <= Len(w) THEN Some(w[i]) ELSE None

\* a one-string variant: Other with no data when the string is missing
VisitSimple(w, variant) ==
    IF Len(w) < 2 THEN Ok(Other(w[1], <<>>))
    ELSE Ok([variant |-> variant, s |-> w[2]])

\* visit_seq, the "a" branch (336-381)
VisitAddress(w) ==
    IF Len(w) < 2 THEN Ok(Other(w[1], <<>>))
    ELSE LET a == w[2]
             relay_url == NextElement(w, 3)
             failvec == IF IsSome(relay_url) THEN <<a, relay_url[1]>> ELSE <<a>>
             parts == Split(a, ":")
         IN IF Len(parts) # 3 THEN Ok(Other(w[1], failvec))
            ELSE IF ~IsSome(ParseUnsigned(parts[1], U32Max))
                 THEN Ok(Other(w[1], failvec))
            ELSE IF ~PublicKeyHex_valid(parts[2]) THEN Ok(Other(w[1], failvec))
            ELSE Ok(Address(ParseUnsigned(parts[1], U32Max)[1], parts[2],
                            parts[3], relay_url))

\* visit_seq, the "delegation" branch (393-425)
VisitDelegation(w) ==
    IF Len(w) < 2 THEN Ok(Other(w[1], <<>>))
    ELSE IF ~PublicKeyHex_valid(w[2]) THEN Err("PublicKeyHex")
    ELSE IF Len(w) < 3 THEN Ok(Other(w[1], <<w[2]>>))
    ELSE IF ~DelegationConditions_valid(w[3]) THEN Err("DelegationConditions")
    ELSE IF Len(w) < 4
         THEN Ok(Other(w[1], <<w[2], DelegationConditions_as_string(
                                         DelegationConditions_parse(w[3]))>>))
    ELSE IF ~SignatureHex_valid(w[4]) THEN Err("SignatureHex")
    ELSE Ok(Delegation(w[2], DelegationConditions_parse(w[3]), w[4]))

\* visit_seq, the "e" branch (426-442)
VisitEvent(w) ==
    IF Len(w) < 2 THEN Ok(Other(w[1], <<>>))
    ELSE IF ~Id_valid(w[2]) THEN Err("Id")
    ELSE Ok(EventTag(Id_deserialize(w[2]), NextElement(w, 3), NextElement(w, 4)))

\* visit_seq, the "expiration" branch (443-453)
VisitExpiration(w) ==
    IF Len(w) < 2 THEN Ok(Other(w[1], <<>>))
    ELSE IF ~Unixtime_valid(w[2]) THEN Err("Unixtime")
    ELSE Ok(Expiration(Unixtime_deserialize(w[2])))

\* visit_seq, the "p" branch (454-470)
VisitPubkey(w) ==
    IF Len(w) < 2 THEN Ok(Other(w[1], <<>>))
    ELSE IF ~PublicKeyHex_valid(w[2]) THEN Err("PublicKeyHex")
    ELSE Ok(Pubkey(w[2], NextElement(w, 3), NextElement(w, 4)))

\* VisitIdentifier falling back to Other like the other one-string variants
VisitIdentifier_fallback(w) == VisitSimple(w, "Identifier")

\* visit_seq, the "d" branch (505-513): a missing value is the empty string
VisitIdentifier(w) ==
    IF Len(w) < 2 THEN Ok(Identifier(EmptyStr)) ELSE Ok(Identifier(w[2]))

\* visit_seq, the "parameter" branch (537-542): a missing value is the empty
\* string
VisitParameter(w) ==
    Ok(Parameter(IF Len(w) < 2 THEN EmptyStr ELSE w[2]))

\* TagVisitor::visit_seq: the Result of decoding the array w
TagVisitor_visit_seq(w) ==
    IF w = <<>> THEN Ok(Empty)
    ELSE LET tagname == w[1]
         IN CASE tagname = Str("a") -> VisitAddress(w)
              [] tagname = Str("content-warning") -> VisitSimple(w, "ContentWarning")
              [] tagname = Str("delegation") -> VisitDelegation(w)
              [] tagname = Str("e") -> VisitEvent(w)
              [] tagname = Str("expiration") -> VisitExpiration(w)
              [] tagname = Str("p") -> VisitPubkey(w)
              [] tagname = Str("t") -> VisitSimple(w, "Hashtag")
              [] tagname = Str("r") ->
                    IF Len(w) < 2 THEN Ok(Other(tagname, <<>>))
                    ELSE Ok(Reference(w[2], NextElement(w, 3)))
              [] tagname = Str("g") -> VisitSimple(w, "Geohash")
              [] tagname = Str("d") -> VisitIdentifier(w)
              [] tagname = Str("subject") -> VisitSimple(w, "Subject")
              [] tagname = Str("nonce") ->
                    IF Len(w) < 2 THEN Ok(Other(tagname, <<>>))
                    ELSE Ok(Nonce(w[2], NextElement(w, 3)))
              [] tagname = Str("parameter") -> VisitParameter(w)
              [] tagname = Str("title") -> VisitSimple(w, "Title")
              [] OTHER -> Ok(Other(tagname, Tail(w)))

-----------------------------------------------------------------------------
(* The values the model draws its inputs from *)

Id1 == IdOfBytes([i \in 1..IdLen |-> 171])
Id2 == IdOfBytes([i \in 1..IdLen |-> i - 1])
PkHex1 == Hex([i \in 1..IdLen |-> 52])
SigHex1 == Hex([i \in 1..(2 * IdLen) |-> 86])
Url1 == Str("wss://r")
Cond1 == <<"kind=", "1", "&", "created_at>", "5">>

OptUrls == {None, Some(Url1), Some(EmptyStr)}
OptMarkers == {None, Some(Str("reply"))}
Strings == {EmptyStr, Str("x"), <<"x", ":", "y">>}

\* the Tag values handed to the encoder: every variant, with each optional
\* field absent and present
Tags ==
    {Address(30023, PkHex1, d, u) : d \in Strings, u \in {None, Some(Url1)}}
    \cup {ContentWarning(x) : x \in Strings}
    \cup {Delegation(PkHex1, DelegationConditions_parse(Cond1), SigHex1)}
    \cup {EventTag(Id1, u, m) : u \in OptUrls, m \in OptMarkers}
    \cup {Expiration(t) : t \in {0, 1680000000, 0 - 5}}
    \cup {Pubkey(PkHex1, u, m) : u \in OptUrls, m \in OptMarkers}
    \cup {Hashtag(x) : x \in Strings}
    \cup {Reference(Url1, m) : m \in OptMarkers}
    \cup {Geohash(x) : x \in Strings}
    \cup {Identifier(x) : x \in Strings}
    \cup {Subject(x) : x \in Strings}
    \cup {Nonce(Dec(n), t) : n \in {0, 12}, t \in {None, Some(Dec(20))}}
    \cup {Parameter(x) : x \in Strings}
    \cup {Title(x) : x \in Strings}
    \cup {Other(n, d) : n \in {Str("zzz"), Str("d"), Str("e"), Str("a"), Str("t")},
                        d \in {<<>>, <<Str("x")>>, <<Str("x"), EmptyStr>>}}
    \cup {Empty}

\* the tag names the decoder recognizes, and one it does not
TagNames ==
    {Str(n) : n \in {"a", "content-warning", "delegation", "e", "expiration",
                     "p", "t", "r", "g", "d", "subject", "nonce", "parameter",
                     "title", "zzz"}}

\* the strings that follow a tag name in a received array: well-formed and
\* malformed ones of each kind
Elements ==
    {EmptyStr, Str("x"), Str("reply"), Dec(12), PkHex1, SigHex1, Cond1,
     Dec(30023) \o <<":">> \o PkHex1 \o <<":", "x">>,
     Dec(30023) \o <<":">> \o PkHex1 \o <<":", "x", ":", "y">>,
     <<"x", ":">> \o PkHex1 \o <<":", "x">>,
     Dec(30023) \o <<":", "x", ":", "x">>}

RECURSIVE SeqsUpTo(_, _)
\* the sequences over S of length at most n
SeqsUpTo(S, n) ==
    IF n = 0 THEN {<<>>}
    ELSE LET shorter == SeqsUpTo(S, n - 1)
         IN shorter \cup {Append(q, x) : q \in shorter, x \in S}

\* the arrays of strings handed to the decoder
Wires == {<<>>} \cup {<<n>> \o q : n \in TagNames, q \in SeqsUpTo(Elements, MaxElems)}

-----------------------------------------------------------------------------
(* The tag codec as a state machine: a Tag value is encoded and the array  *)
(* decoded again, or a received array is decoded.                          *)

EvIdle ==
    /\ epc = "idle" /\ pre = None /\ privkey = None /\ event = None
    /\ built = None /\ maxtime = None /\ vres = NoResult
    /\ query = "" /\ qres = NoResult

PowIdle ==
    /\ overflow_checks = FALSE /\ zero_bits = 0 /\ sender = "none"
    /\ cores = 0 /\ input = None /\ mpc = "idle" /\ joined = 0
    /\ wpc = <<>> /\ attempt = <<>> /\ lz = <<>>
    /\ quitting = FALSE /\ nonce = 0 /\ best_work = 0 /\ result = NoResult

TagInit ==
    /\ \/ tpc = "start" /\ tag \in {Some(t) : t \in Tags} /\ wire = <<>>
       \/ tpc = "encoded" /\ tag = None /\ wire \in Wires
    /\ decoded = NoResult
    /\ tname = None
    /\ EvIdle /\ PowIdle /\ sha = <<>>

\* serde_json::to_string(&tag)
Serialize ==
    /\ tpc = "start"
    /\ wire' = Tag_serialize(tag[1])
    /\ tpc' = "encoded"
    /\ UNCHANGED <<tag, decoded, tname, evVars, powVars, sha>>

\* serde_json::from_str, which hands the array to TagVisitor::visit_seq
Deserialize ==
    /\ tpc = "encoded"
    /\ decoded' = TagVisitor_visit_seq(wire)
    /\ tpc' = "decoded"
    /\ UNCHANGED <<tag, wire, tname, evVars, powVars, sha>>

\* tag.tagname()
Tagname ==
    /\ tag # None
    /\ tname = None
    /\ tname' = Tag_tagname(tag[1])
    /\ UNCHANGED <<tpc, tag, wire, decoded, evVars, powVars, sha>>

TagNext == Serialize \/ Deserialize \/ Tagname

TagSpec == TagInit /\ [][TagNext]_vars

-----------------------------------------------------------------------------
(* Claims about the tag codec, checked under TagSpec *)

\* a Tag value has been encoded and the array decoded again
RoundTripDone == tag # None /\ tpc = "decoded"
\* a received array has been decoded
ReceivedDecoded == tag = None /\ tpc = "decoded"

\* C5: for every Tag value x of every variant, decoding the encoding of x
\* yields x.
C5_RoundTrip == RoundTripDone => decoded = Ok(tag[1])

\* C6: decoding a tag never returns an error, whatever the array of strings.
C6_DecodeNeverFails == tpc = "decoded" => decoded.ok

\* the tag names with a per-variant parser, "d" and "parameter" left out
FallbackNames ==
    {Str(n) : n \in {"a", "content-warning", "delegation", "e", "expiration",
                     "p", "t", "r", "g", "subject", "nonce", "title"}}
\* the number of elements a variant requires after its name
RequiredElements(name) == IF name = Str("delegation") THEN 3 ELSE 1
TooFewElements(w) ==
    w # <<>> /\ w[1] \in FallbackNames /\ Len(w) - 1 < RequiredElements(w[1])
MalformedAddress(w) ==
    /\ Len(w) >= 2 /\ w[1] = Str("a")
    /\ \/ Len(Split(w[2], ":")) # 3
       \/ ~IsSome(ParseUnsigned(Split(w[2], ":")[1], U32Max))
       \/ ~PublicKeyHex_valid(Split(w[2], ":")[2])
\* the strings the parser of w[1] has read after the name when it gives up
ConsumedSoFar(w) ==
    IF w[1] = Str("a") THEN SubSeq(w, 2, IF Len(w) < 3 THEN Len(w) ELSE 3)
    ELSE Tail(w)

\* C7: a recognized name (other than "d" and "parameter") followed by too few
\* required elements, or an "a" tag whose packed string is malformed, decodes
\* to Other with that name and exactly the strings consumed so far.
C7_FallbackToOther ==
    (ReceivedDecoded /\ (TooFewElements(wire) \/ MalformedAddress(wire)))
        => decoded = Ok(Other(wire[1], ConsumedSoFar(wire)))

\* C8: ["d"] decodes to Identifier("") and ["parameter"] to Parameter(""),
\* never to Other.
C8_ImplicitEmptyValue ==
    /\ (tpc = "decoded" /\ wire = <<Str("d")>>)
          => decoded = Ok(Identifier(EmptyStr))
    /\ (tpc = "decoded" /\ wire = <<Str("parameter")>>)
          => decoded = Ok(Parameter(EmptyStr))

C8_Witness ==
    /\ ReceivedDecoded /\ wire = <<Str("d")>>
    /\ decoded = Ok(Identifier(EmptyStr))

\* the relay url and the later optional field (marker, petname) of an Event
\* or Pubkey tag
RelayUrlOf(t) == t.recommended_relay_url
LaterFieldOf(t) == IF t.variant = "Event" THEN t.marker ELSE t.petname

\* C9: an Event or Pubkey tag with the later field but no relay url is
\* encoded with "" in the relay-url position, the later field at array index
\* 3; with neither the array has two elements, with only the relay url three.
C9_Placeholder ==
    (tag # None /\ tpc # "start" /\ tag[1].variant \in {"Event", "Pubkey"}) =>
        LET t == tag[1]
            url == RelayUrlOf(t)
            later == LaterFieldOf(t)
        IN /\ (url = None /\ later # None) =>
                  (Len(wire) = 4 /\ wire[3] = EmptyStr /\ wire[4] = later[1])
           /\ (url = None /\ later = None) => Len(wire) = 2
           /\ (url # None /\ later = None) => (Len(wire) = 3 /\ wire[3] = url[1])

C9_Witness ==
    /\ tpc = "encoded"
    /\ tag = Some(EventTag(Id1, None, Some(Str("reply"))))
    /\ wire = <<Str("e"), Id_serialize(Id1), EmptyStr, Str("reply")>>

\* C10: Tag::tagname returns, for every variant but Empty, the first element
\* of the tag's wire array.
C10_TagnameIsWireName ==
    (tag # None /\ tpc # "start" /\ tname # None /\ tag[1].variant # "Empty")
        => tname = Some(wire[1])

-----------------------------------------------------------------------------
(* Events: construction and verification (event.rs).  The keys, the        *)
(* signature primitive and SHA-256 are used by event.rs and defined        *)
(* elsewhere; they are modelled as ideal primitives: a signature names its *)
(* signer and the digest it signs, and verification over a message         *)
(* hashes the message itself.                                              *)

PrivateKeys == {"sk1", "sk2"}
\* PrivateKey::public_key
PublicKeyOf(sk) == [i \in 1..IdLen |-> IF sk = "sk1" THEN 52 ELSE 86]

\* the leading bytes of a digest the model has not sampled
DefaultLeading == [i \in 1..IdLen |-> 255]

\* Sha256 of a text: the leading bytes sampled for it, and the text itself for
\* the rest of the digest
Sha256(text) ==
    [bytes |-> IF text \in DOMAIN sha THEN sha[text] ELSE DefaultLeading,
     pre |-> text]

\* PrivateKey::sign_id: a signature over the 32 bytes of the id
PrivateKey_sign_id(sk, id) == [signer |-> PublicKeyOf(sk), digest |-> id]

\* k256 Verifier::verify(msg, sig): hashes msg, then checks the signature
VerifyingKey_verify(pubkey, msg, sig) ==
    sig.signer = pubkey /\ sig.digest = Sha256(msg)

\* serialize_inner_event!: "[0,pubkey,created_at,kind,tags,content]", kept as
\* the sequence of its six JSON texts
serialize_inner_event(pubkey, created_at, kind, tags, content) ==
    <<Dec(0), Hex(pubkey), DecSigned(created_at), Dec(kind),
      [i \in 1..Len(tags) |-> Tag_serialize(tags[i])], content>>

PreEvent(pubkey, created_at, kind, tags, content, ots) ==
    [pubkey |-> pubkey, created_at |-> created_at, kind |-> kind,
     tags |-> tags, content |-> content, ots |-> ots]

\* Event::hash over the ots field as well
Event_hash_with_ots(in) ==
    Sha256(Append(serialize_inner_event(in.pubkey, in.created_at, in.kind,
                                        in.tags, in.content), in.ots))

\* Event::hash
Event_hash(in) ==
    Sha256(serialize_inner_event(in.pubkey, in.created_at, in.kind, in.tags,
                                 in.content))

\* Event::new with the id taken over everything but the content
Event_new_id_without_content(in, sk) ==
    LET id == Event_hash([in EXCEPT !.content = EmptyStr])
    IN [id |-> id, pubkey |-> in.pubkey, created_at |-> in.created_at,
        kind |-> in.kind, tags |-> in.tags, content |-> in.content,
        ots |-> in.ots, sig |-> PrivateKey_sign_id(sk, id)]

\* Event::new
Event_new(in, sk) ==
    LET id == Event_hash(in)
    IN [id |-> id, pubkey |-> in.pubkey, created_at |-> in.created_at,
        kind |-> in.kind, tags |-> in.tags, content |-> in.content,
        ots |-> in.ots, sig |-> PrivateKey_sign_id(sk, id)]

OkUnit == [ok |-> TRUE]

\* Event::verify rejecting an event created exactly at maxtime
Event_verify_strict(e, mt) ==
    LET serialized == serialize_inner_event(e.pubkey, e.created_at, e.kind,
                                            e.tags, e.content)
    IN IF ~VerifyingKey_verify(e.pubkey, serialized, e.sig) THEN Err("Signature")
       ELSE IF IsSome(mt) /\ e.created_at >= mt[1] THEN Err("EventInFuture")
       ELSE IF Sha256(serialized) # e.id THEN Err("HashMismatch")
       ELSE OkUnit

\* Event::verify
Event_verify(e, mt) ==
    LET serialized == serialize_inner_event(e.pubkey, e.created_at, e.kind,
                                            e.tags, e.content)
    IN IF ~VerifyingKey_verify(e.pubkey, serialized, e.sig) THEN Err("Signature")
       ELSE IF IsSome(mt) /\ e.created_at > mt[1] THEN Err("EventInFuture")
       ELSE IF Sha256(serialized) # e.id THEN Err("HashMismatch")
       ELSE OkUnit

-----------------------------------------------------------------------------
(* Event::new and Event::verify as a state machine: an event is built,     *)
(* test code changes fields of it (as test_event_new_and_verify does), and *)
(* it is verified.                                                         *)

\* the most fields of the event that differ from the event as built
MaxChanged == 2

Times == {5, 7}
Kinds == {1, 7}
Contents == {Str("Hello World!"), Str("I'm changing this message")}
TagLists ==
    {<<EventTag(Id1, None, Some(Str("reply")))>>,
     <<EventTag(Id1, Some(EmptyStr), Some(Str("reply")))>>,
     <<EventTag(Id1, Some(Url1), None), Hashtag(Str("x"))>>}
OptOts == {None, Some(Str("ots"))}
MaxTimes == {None} \cup {Some(t) : t \in Times \cup {4}}

PreEvents ==
    {PreEvent(PublicKeyOf(k), 5, 1, <<EventTag(Id1, url, Some(Str("reply")))>>,
              Str("Hello World!"), None) :
        k \in PrivateKeys, url \in {None, Some(Url1)}}

Fields == {"id", "pubkey", "created_at", "kind", "tags", "content", "ots", "sig"}

\* the values test code may give field f of the event e
FieldValues(f, e) ==
    CASE f = "id" -> {Id2, built.id, Event_hash(e)}
      [] f = "pubkey" -> {PublicKeyOf(k) : k \in PrivateKeys}
      [] f = "created_at" -> Times
      [] f = "kind" -> Kinds
      [] f = "tags" -> TagLists
      [] f = "content" -> Contents
      [] f = "ots" -> OptOts
      [] f = "sig" -> {built.sig} \cup {PrivateKey_sign_id(k, e.id) : k \in PrivateKeys}

\* the fields in which e differs from the event as built
Changed(e) == {f \in Fields : e[f] # built[f]}

TagIdle ==
    /\ tpc = "idle" /\ tag = None /\ wire = <<>> /\ decoded = NoResult
    /\ tname = None

EventInit ==
    /\ epc = "pre"
    /\ pre \in PreEvents
    /\ privkey \in PrivateKeys
    /\ event = None /\ built = None /\ maxtime = None /\ vres = NoResult
    /\ query = "" /\ qres = NoResult
    /\ TagIdle /\ PowIdle /\ sha = <<>>

\* Event::new(pre, &privkey)
New ==
    /\ epc = "pre"
    /\ built' = Event_new(pre, privkey)
    /\ event' = built'
    /\ epc' = "built"
    /\ UNCHANGED <<pre, privkey, maxtime, vres, query, qres, tagVars, powVars,
                   sha>>

ChangeTo(f, v) ==
    /\ v # event[f]
    /\ event' = [event EXCEPT ![f] = v]
    /\ Cardinality(Changed(event')) <= MaxChanged
    /\ vres' = NoResult
    /\ maxtime' = None
    /\ UNCHANGED <<epc, pre, privkey, built, query, qres, tagVars, powVars, sha>>

\* test code: event.f = v
Change(f) ==
    /\ epc = "built"
    /\ \E v \in FieldValues(f, event) : ChangeTo(f, v)

\* event.verify(mt)
Verify(mt) ==
    /\ epc = "built"
    /\ vres' = Event_verify(event, mt)
    /\ maxtime' = mt
    /\ UNCHANGED <<epc, pre, privkey, event, built, query, qres, tagVars,
                   powVars, sha>>

EventNext ==
    \/ New
    \/ \E f \in Fields : Change(f)
    \/ \E mt \in MaxTimes : Verify(mt)

EventSpec == EventInit /\ [][EventNext]_vars

-----------------------------------------------------------------------------
(* Claims about Event::new and Event::verify, checked under EventSpec.     *)

\* the event has been verified since it was built or last changed
Verified == epc = "built" /\ vres # NoResult

SerializedEvent ==
    serialize_inner_event(event.pubkey, event.created_at, event.kind,
                          event.tags, event.content)
SignatureOk == VerifyingKey_verify(event.pubkey, SerializedEvent, event.sig)
DigestOk == Sha256(SerializedEvent) = event.id
TimeOk == maxtime = None \/ event.created_at <= maxtime[1]

\* C2: when the PreEvent's pubkey is the public key of the private key used,
\* the event returned by Event::new stores the hash of its canonical
\* serialization as id, carries a signature that verification over the
\* serialized text accepts, and verify(None) on it returns Ok.
C2_NewVerifies ==
    (epc = "built" /\ event = built /\ pre.pubkey = PublicKeyOf(privkey)) =>
        /\ DigestOk
        /\ SignatureOk
        /\ (vres # NoResult /\ maxtime = None) => vres = OkUnit

C2_Witness ==
    /\ Verified /\ event = built /\ pre.pubkey = PublicKeyOf(privkey)
    /\ maxtime = None /\ vres = OkUnit

SoundnessFields == {"content", "created_at", "kind", "tags", "pubkey", "id"}

\* C3: for an event built by Event::new with the matching key, verify(None)
\* returns an error when exactly one of content, created_at, kind, tags,
\* pubkey, id differs from the value it was built with, and returns Ok when
\* every field has the value it was built with.
C3_SingleChangeFails ==
    (Verified /\ maxtime = None /\ pre.pubkey = PublicKeyOf(privkey)) =>
        /\ (\E f \in SoundnessFields : Changed(event) = {f}) => ~vres.ok
        /\ Changed(event) = {} => vres = OkUnit

\* C4: verify(maxtime) returns Ok exactly when the signature verifies against
\* pubkey, the recomputed digest equals the stored id, and maxtime is None or
\* created_at <= maxtime.  Of the events whose signature verifies, one created
\* exactly at maxtime with the right id is accepted, one created strictly
\* later is rejected with EventInFuture, and one within time whose id alone
\* mismatches is rejected with HashMismatch.  With maxtime None the result is
\* never EventInFuture.
C4_VerifyOutcome ==
    Verified =>
        /\ vres = OkUnit <=> (SignatureOk /\ DigestOk /\ TimeOk)
        /\ (SignatureOk /\ DigestOk /\ IsSome(maxtime)
                /\ event.created_at = maxtime[1]) => vres = OkUnit
        /\ (SignatureOk /\ IsSome(maxtime) /\ event.created_at > maxtime[1])
                => vres = Err("EventInFuture")
        /\ (SignatureOk /\ TimeOk /\ ~DigestOk) => vres = Err("HashMismatch")
        /\ maxtime = None => vres # Err("EventInFuture")

C4_Witness ==
    /\ Verified /\ IsSome(maxtime) /\ event.created_at = maxtime[1]
    /\ vres = OkUnit

-----------------------------------------------------------------------------
(* Proof of work: Event::new_with_pow (event.rs).  The main thread spawns  *)
(* one worker per core; the workers share the atomics quitting, nonce and  *)
(* best_work, and every access to one of them is a step of its own.        *)

\* u8::leading_zeros of a byte that is not zero
ByteLeadingZeros(b) ==
    IF b >= 128 THEN 0 ELSE IF b >= 64 THEN 1 ELSE IF b >= 32 THEN 2
    ELSE IF b >= 16 THEN 3 ELSE IF b >= 8 THEN 4 ELSE IF b >= 4 THEN 5
    ELSE IF b >= 2 THEN 6 ELSE 7

\* the outcome of get_leading_zero_bits when the build panics on overflow
PanicLz == 0 - 1

RECURSIVE LeadingZeroLoop(_, _, _)
\* the for loop of get_leading_zero_bits from byte i on, res so far; res is a
\* u8, and res += 8 at 248 overflows: a panic, or a wrap to 0
LeadingZeroLoop(bytes, i, res) ==
    IF i > Len(bytes) THEN res
    ELSE IF bytes[i] = 0
         THEN IF res + 8 > U8Max
              THEN IF overflow_checks THEN PanicLz
                   ELSE LeadingZeroLoop(bytes, i + 1, (res + 8) % (U8Max + 1))
              ELSE LeadingZeroLoop(bytes, i + 1, res + 8)
         ELSE res + ByteLeadingZeros(bytes[i])

get_leading_zero_bits(bytes) == LeadingZeroLoop(bytes, 1, 0)

\* the leading bytes a digest may turn out to have: 1, 3 and 9 leading zero
\* bits, and the digest of 32 zero bytes
Heads ==
    {[i \in 1..IdLen |-> IF i = 1 THEN 127 ELSE 255],
     [i \in 1..IdLen |-> IF i = 1 THEN 31 ELSE 255],
     [i \in 1..IdLen |-> IF i = 1 THEN 0 ELSE IF i = 2 THEN 127 ELSE 255],
     [i \in 1..IdLen |-> 0]}

OkEvent(e) == [ok |-> TRUE, event |-> e]

Workers == 1..cores

\* line 200: the first attempt of the worker of core c (cores count from 0)
FirstAttempt(c) == (c - 1) * (U64Max \div cores)

\* the attempt pushed as one more nonce tag
WithNonce_pushed(in, n) ==
    [in EXCEPT !.tags = Append(@, Nonce(Dec(n), Some(Dec(zero_bits))))]

\* lines 220-224: the worker's input with its attempt in the nonce tag
WithNonce(in, n) ==
    [in EXCEPT !.tags[Len(in.tags)] = Nonce(Dec(n), Some(Dec(zero_bits)))]

\* the text Event::hash serializes for an input
HashedText(in) ==
    serialize_inner_event(in.pubkey, in.created_at, in.kind, in.tags, in.content)

\* the table of digests once text has been hashed with leading bytes h
Sampled(text, h) ==
    IF text \in DOMAIN sha THEN sha
    ELSE [t \in DOMAIN sha \cup {text} |-> IF t = text THEN h ELSE sha[t]]

\* h is what hashing text yields: the bytes sampled before, or any
SamplesTo(text, h) == text \in DOMAIN sha => h = sha[text]

\* the PreEvents handed to the miner carry a nonce tag of an earlier mining
PowPreEvents ==
    {PreEvent(PublicKeyOf("sk1"), 5, 1,
              <<Nonce(Str("7"), None), Hashtag(Str("x")),
                Nonce(Str("8"), Some(Str("3"))), Subject(Str("y"))>>,
              Str("Hello World!"), Some(Str("ots")))}

ZeroBits == {0, 9}

PowInit ==
    /\ mpc = "spawn"
    /\ pre \in PowPreEvents
    /\ privkey = "sk1"
    /\ zero_bits \in ZeroBits
    /\ sender \in {"none", "open"}
    /\ cores \in 1..MaxCores
    /\ overflow_checks \in BOOLEAN
    /\ input = None /\ joined = 0
    /\ wpc = <<>> /\ attempt = <<>> /\ lz = <<>>
    /\ quitting = FALSE /\ nonce = 0 /\ best_work = 0 /\ result = NoResult
    /\ epc = "idle" /\ event = None /\ built = None /\ maxtime = None
    /\ vres = NoResult /\ query = "" /\ qres = NoResult
    /\ TagIdle /\ sha = <<>>

powConst == <<overflow_checks, zero_bits, cores, tagVars, evVars>>

\* lines 178-249: strip the nonce tags, append the nonce tag, spawn the workers
Start ==
    /\ mpc = "spawn"
    /\ input' = [pre EXCEPT !.tags =
                    SelectSeq(pre.tags, LAMBDA t : t.variant # "Nonce")
                        \o <<Nonce(Dec(0), Some(Dec(zero_bits)))>>]
    /\ wpc' = [c \in Workers |-> "loop"]
    /\ attempt' = [c \in Workers |-> FirstAttempt(c)]
    /\ lz' = [c \in Workers |-> 0]
    /\ mpc' = "join"
    /\ UNCHANGED <<powConst, sender, joined, quitting, nonce, best_work,
                   result, sha>>

\* the holder of the receiving end drops it
DropReceiver ==
    /\ sender = "open"
    /\ mpc = "join"
    /\ sender' = "closed"
    /\ UNCHANGED <<powConst, input, mpc, joined, wpc, attempt, lz, quitting,
                   nonce, best_work, result, sha>>

\* line 243: attempt += 1 on a u64; no worker comes near u64::MAX within
\* MaxAttempts attempts of its FirstAttempt
AddOne(a) == IF a = U64Max THEN 0 ELSE a + 1

\* lines 216-229: quitting.load; if not quitting, hash the input under the
\* worker's attempt and count the leading zero bits (h: the bytes the digest
\* starts with)
Attempt(c, h) ==
    /\ mpc = "join" /\ wpc[c] = "loop"
    /\ \/ /\ quitting
          /\ wpc' = [wpc EXCEPT ![c] = "done"]
          /\ UNCHANGED <<lz, sha>>
       \/ /\ ~quitting
          /\ Cardinality(DOMAIN sha) < MaxAttempts
          /\ LET text == HashedText(WithNonce(input, attempt[c]))
                 leading_zeroes == get_leading_zero_bits(h)
             IN /\ SamplesTo(text, h)
                /\ sha' = Sampled(text, h)
                /\ lz' = [lz EXCEPT ![c] = leading_zeroes]
                /\ wpc' = [wpc EXCEPT ![c] =
                             IF leading_zeroes = PanicLz THEN "panicked"
                             ELSE IF leading_zeroes >= zero_bits THEN "store_nonce"
                             ELSE "load_best"]
    /\ UNCHANGED <<powConst, sender, input, mpc, joined, attempt, quitting,
                   nonce, best_work, result>>

\* line 230: nonce.store(attempt)
StoreNonce(c) ==
    /\ mpc = "join" /\ wpc[c] = "store_nonce"
    /\ nonce' = attempt[c]
    /\ wpc' = [wpc EXCEPT ![c] = "store_quitting"]
    /\ UNCHANGED <<powConst, sender, input, mpc, joined, attempt, lz, quitting,
                   best_work, result, sha>>

\* line 231: quitting.store(true); without a sender the worker breaks
StoreQuitting(c) ==
    /\ mpc = "join" /\ wpc[c] = "store_quitting"
    /\ quitting' = TRUE
    /\ wpc' = [wpc EXCEPT ![c] = IF sender = "none" THEN "done" ELSE "send_found"]
    /\ UNCHANGED <<powConst, sender, input, mpc, joined, attempt, lz, nonce,
                   best_work, result, sha>>

\* lines 232-235: sender.send(leading_zeroes).unwrap(); break
SendFound(c) ==
    /\ mpc = "join" /\ wpc[c] = "send_found"
    /\ wpc' = [wpc EXCEPT ![c] = IF sender = "closed" THEN "panicked" ELSE "done"]
    /\ UNCHANGED <<powConst, sender, input, mpc, joined, attempt, lz, quitting,
                   nonce, best_work, result, sha>>

\* line 236: leading_zeroes > best_work.load(); if not, line 243
LoadBestWork(c) ==
    /\ mpc = "join" /\ wpc[c] = "load_best"
    /\ IF lz[c] > best_work
       THEN wpc' = [wpc EXCEPT ![c] = "store_best"] /\ UNCHANGED attempt
       ELSE /\ wpc' = [wpc EXCEPT ![c] = "loop"]
            /\ attempt' = [attempt EXCEPT ![c] = AddOne(@)]
    /\ UNCHANGED <<powConst, sender, input, mpc, joined, lz, quitting, nonce,
                   best_work, result, sha>>

\* line 237: best_work.store(leading_zeroes); without a sender, line 243
StoreBestWork(c) ==
    /\ mpc = "join" /\ wpc[c] = "store_best"
    /\ best_work' = lz[c]
    /\ IF sender = "none"
       THEN /\ wpc' = [wpc EXCEPT ![c] = "loop"]
            /\ attempt' = [attempt EXCEPT ![c] = AddOne(@)]
       ELSE wpc' = [wpc EXCEPT ![c] = "send_best"] /\ UNCHANGED attempt
    /\ UNCHANGED <<powConst, sender, input, mpc, joined, lz, quitting, nonce,
                   result, sha>>

\* lines 238-243: sender.send(leading_zeroes).unwrap(); attempt += 1
SendBest(c) ==
    /\ mpc = "join" /\ wpc[c] = "send_best"
    /\ IF sender = "closed"
       THEN wpc' = [wpc EXCEPT ![c] = "panicked"] /\ UNCHANGED attempt
       ELSE /\ wpc' = [wpc EXCEPT ![c] = "loop"]
            /\ attempt' = [attempt EXCEPT ![c] = AddOne(@)]
    /\ UNCHANGED <<powConst, sender, input, mpc, joined, lz, quitting, nonce,
                   best_work, result, sha>>

\* joinhandle.join() returning before the thread has ended
Join_not_waiting(c) ==
    /\ mpc = "join"
    /\ joined = c - 1
    /\ joined' = c
    /\ UNCHANGED <<powConst, sender, input, mpc, wpc, attempt, lz, quitting,
                   nonce, best_work, result, sha>>

\* lines 251-253: let _ = joinhandle.join(), in the order of spawning; a
\* worker that panicked is joined like one that returned
Join(c) ==
    /\ mpc = "join"
    /\ joined = c - 1
    /\ wpc[c] \in {"done", "panicked"}
    /\ joined' = c
    /\ UNCHANGED <<powConst, sender, input, mpc, wpc, attempt, lz, quitting,
                   nonce, best_work, result, sha>>

\* lines 256-275: write nonce.load() into the nonce tag, hash, sign, return
Finalize(h) ==
    /\ mpc = "join"
    /\ joined = cores
    /\ LET final == WithNonce(input, nonce)
           text == HashedText(final)
       IN /\ SamplesTo(text, h)
          /\ sha' = Sampled(text, h)
          /\ input' = final
          /\ result' = OkEvent(
                [id |-> [bytes |-> h, pre |-> text],
                 pubkey |-> final.pubkey, created_at |-> final.created_at,
                 kind |-> final.kind, tags |-> final.tags,
                 content |-> final.content, ots |-> final.ots,
                 sig |-> PrivateKey_sign_id(privkey, [bytes |-> h, pre |-> text])])
    /\ mpc' = "done"
    /\ UNCHANGED <<powConst, sender, joined, wpc, attempt, lz, quitting, nonce,
                   best_work>>

PowNext ==
    \/ Start
    \/ DropReceiver
    \/ \E c \in Workers : \E h \in Heads : Attempt(c, h)
    \/ \E c \in Workers : StoreNonce(c)
    \/ \E c \in Workers : StoreQuitting(c)
    \/ \E c \in Workers : SendFound(c)
    \/ \E c \in Workers : LoadBestWork(c)
    \/ \E c \in Workers : StoreBestWork(c)
    \/ \E c \in Workers : SendBest(c)
    \/ \E c \in Workers : Join(c)
    \/ \E h \in Heads : Finalize(h)

PowSpec == PowInit /\ [][PowNext]_vars

\* one step of the thread of worker c
WorkerStep(c) ==
    /\ c \in DOMAIN wpc
    /\ \/ \E h \in Heads : Attempt(c, h)
       \/ StoreNonce(c) \/ StoreQuitting(c) \/ SendFound(c)
       \/ LoadBestWork(c) \/ StoreBestWork(c) \/ SendBest(c)

\* the miner in a build without overflow checks (the release profile); a
\* worker can still end by panic, in a send on a closed channel
PowFairInit == PowInit /\ ~overflow_checks

\* the scheduler lets every spawned thread run (thread::spawn, 209); only
\* the steps taken once the quit flag is raised need to be fair
PowFairSpec ==
    /\ PowFairInit /\ [][PowNext]_vars
    /\ \A c \in 1..MaxCores : WF_vars(quitting /\ WorkerStep(c))

-----------------------------------------------------------------------------
(* Claims about Event::new_with_pow, checked under PowSpec.                *)

RECURSIVE CountZeroBits(_, _)
\* the number of leading zero bits of bytes from byte i on, as a number
CountZeroBits(bytes, i) ==
    IF i > Len(bytes) THEN 0
    ELSE IF bytes[i] = 0 THEN 8 + CountZeroBits(bytes, i + 1)
    ELSE ByteLeadingZeros(bytes[i])

\* C1: whatever the PreEvent, the key, the target and the interleaving of the
\* workers, the event new_with_pow returns has an id with at least zero_bits
\* leading zero bits.
C1_MinedIdMeetsTarget ==
    mpc = "done" =>
        /\ result.ok
        /\ CountZeroBits(result.event.id.bytes, 1) >= zero_bits

-----------------------------------------------------------------------------
(* The read-only functions over an event's tags (event.rs 481-1028).       *)
(* EventKind and RelayUrl are defined outside event.rs: a kind is modelled *)
(* by its number, and a RelayUrl is an UncheckedUrl that passed validation.*)

TextNote == 1
EventDeletion == 5
Repost == 6
Reaction == 7
Zap == 9735

\* EventKind::is_feed_displayable
EventKind_is_feed_displayable(kind) == kind \in {TextNote, Repost}

\* RelayUrl::try_from_unchecked_url(rru).ok()
RelayUrl_try_from_unchecked_url(url) ==
    IF url # EmptyStr /\ Head(url) \in {"wss://r", "wss://s"} THEN Some(url)
    ELSE None

\* recommended_relay_url.as_ref().and_then(|rru| ..ok())
RelayOf(t) ==
    IF IsSome(t.recommended_relay_url)
    THEN RelayUrl_try_from_unchecked_url(t.recommended_relay_url[1])
    ELSE None

\* a call that returned v, and a call that panicked
Returned(v) == [returned |-> v]
Panicked == [panicked |-> TRUE]

\* the positions of the tags of one variant, and of the Event tags with a marker
VariantIndices(tags, variant) ==
    {i \in 1..Len(tags) : tags[i].variant = variant}
MarkedIndices(tags, marker) ==
    {i \in VariantIndices(tags, "Event") : tags[i].marker = Some(Str(marker))}
MinOf(S) == CHOOSE i \in S : \A j \in S : i <= j
MaxOf(S) == CHOOSE i \in S : \A j \in S : i >= j

\* Event::pow (954-970): the target of the first Nonce tag, 0 if it has none
\* or parse::<u8> fails; the smaller of it and the zero bits counted
Event_pow(e) ==
    LET zeroes == get_leading_zero_bits(e.id.bytes)
        nonces == VariantIndices(e.tags, "Nonce")
        target == IF nonces = {} THEN None ELSE e.tags[MinOf(nonces)].target
        parsed == IF IsSome(target) THEN ParseUnsigned(target[1], U8Max) ELSE None
        target_zeroes == IF IsSome(parsed) THEN parsed[1] ELSE 0
    IN IF zeroes = PanicLz THEN Panicked
       ELSE Returned(IF zeroes <= target_zeroes THEN zeroes ELSE target_zeroes)

\* an event as received: any id, any tags; the queries check no signature
ReceivedEvent(id, kind, created_at, tags, content) ==
    [id |-> id, pubkey |-> PublicKeyOf("sk1"), created_at |-> created_at,
     kind |-> kind, tags |-> tags, content |-> content, ots |-> None,
     sig |-> PrivateKey_sign_id("sk1", id)]

\* events for Event::pow: ids of 0, 1, 3, 9 and 256 leading zero bits, and nonce
\* tags without a target, with one, with one out of range, with one no number
PowTagLists ==
    {<<>>,
     <<Hashtag(Str("x")), Nonce(Dec(0), None)>>,
     <<Hashtag(Str("x")), Nonce(Dec(0), Some(Dec(9)))>>,
     <<Nonce(Dec(0), Some(Dec(2)))>>,
     <<Nonce(Dec(0), Some(Dec(300)))>>,
     <<Nonce(Dec(0), Some(Str("x")))>>,
     <<Nonce(Dec(0), Some(Dec(2))), Nonce(Dec(0), Some(Dec(9)))>>}

PowEvents ==
    {ReceivedEvent(IdOfBytes(b), TextNote, 5, tl, Str("Hello World!")) :
        b \in Heads \cup {Id1.bytes}, tl \in PowTagLists}

\* (*id, recommended_relay_url..ok()) of an Event tag
Referred(t) == <<t.id, RelayOf(t)>>

\* Event::replies_to looking for 'root' before 'reply'
Event_replies_to_root_first(e) ==
    LET e_tags == VariantIndices(e.tags, "Event")
        reply == MarkedIndices(e.tags, "reply")
        root == MarkedIndices(e.tags, "root")
    IN IF ~EventKind_is_feed_displayable(e.kind) THEN None
       ELSE IF e.kind = Repost THEN None
       ELSE IF e_tags = {} THEN None
       ELSE IF root # {} THEN Some(Referred(e.tags[MinOf(root)]))
       ELSE IF reply # {} THEN Some(Referred(e.tags[MinOf(reply)]))
       ELSE IF e.tags[MaxOf(e_tags)].marker = None
            THEN Some(Referred(e.tags[MaxOf(e_tags)]))
       ELSE None

\* Event::replies_to (481-567)
Event_replies_to(e) ==
    LET e_tags == VariantIndices(e.tags, "Event")
        reply == MarkedIndices(e.tags, "reply")
        root == MarkedIndices(e.tags, "root")
    IN IF ~EventKind_is_feed_displayable(e.kind) THEN None
       ELSE IF e.kind = Repost THEN None
       ELSE IF e_tags = {} THEN None
       ELSE IF reply # {} THEN Some(Referred(e.tags[MinOf(reply)]))
       ELSE IF root # {} THEN Some(Referred(e.tags[MinOf(root)]))
       ELSE IF e.tags[MaxOf(e_tags)].marker = None
            THEN Some(Referred(e.tags[MaxOf(e_tags)]))
       ELSE None

\* Event::replies_to_root falling back to the first Event tag, marked or not
Event_replies_to_root_any_first(e) ==
    LET e_tags == VariantIndices(e.tags, "Event")
        root == MarkedIndices(e.tags, "root")
    IN IF ~EventKind_is_feed_displayable(e.kind) THEN None
       ELSE IF root # {} THEN Some(Referred(e.tags[MinOf(root)]))
       ELSE IF e_tags # {} THEN Some(Referred(e.tags[MinOf(e_tags)]))
       ELSE None

\* Event::replies_to_root (571-616)
Event_replies_to_root(e) ==
    LET e_tags == VariantIndices(e.tags, "Event")
        root == MarkedIndices(e.tags, "root")
    IN IF ~EventKind_is_feed_displayable(e.kind) THEN None
       ELSE IF root # {} THEN Some(Referred(e.tags[MinOf(root)]))
       ELSE IF e_tags # {} /\ e.tags[MinOf(e_tags)].marker = None
            THEN Some(Referred(e.tags[MinOf(e_tags)]))
       ELSE None

\* the Event tags of a tag list, in order
EventTagsOf(tags) == SelectSeq(tags, LAMBDA t : t.variant = "Event")

\* output.push((*id, ..)) for every tag of a list
ReferredAll(tags) == [i \in 1..Len(tags) |-> Referred(tags[i])]

\* Event::mentions counting the first and the last Event tag as well
Event_mentions_with_ends(e) ==
    LET e_tags == EventTagsOf(e.tags)
        marked == SelectSeq(e_tags, LAMBDA t : t.marker = Some(Str("mention")))
        unmarked == SelectSeq(e_tags, LAMBDA t : t.marker = None)
    IN IF ~EventKind_is_feed_displayable(e.kind) THEN <<>>
       ELSE IF e.kind = Repost THEN ReferredAll(e_tags)
       ELSE ReferredAll(marked) \o ReferredAll(unmarked)

\* Event::mentions (647-726)
Event_mentions(e) ==
    LET e_tags == EventTagsOf(e.tags)
        marked == SelectSeq(e_tags, LAMBDA t : t.marker = Some(Str("mention")))
        interior == IF Len(e_tags) > 2 THEN SubSeq(e_tags, 2, Len(e_tags) - 1)
                    ELSE <<>>
        unmarked == SelectSeq(interior, LAMBDA t : t.marker = None)
    IN IF ~EventKind_is_feed_displayable(e.kind) THEN <<>>
       ELSE IF e.kind = Repost THEN ReferredAll(e_tags)
       ELSE ReferredAll(marked) \o ReferredAll(unmarked)

\* Event::reacts_to taking the first Event tag
Event_reacts_to_first(e) ==
    LET e_tags == VariantIndices(e.tags, "Event")
    IN IF e.kind # Reaction THEN None
       ELSE IF e_tags = {} THEN None
       ELSE Some(<<e.tags[MinOf(e_tags)].id, e.content,
                   RelayOf(e.tags[MinOf(e_tags)])>>)

\* Event::reacts_to (730-756): the last Event tag, whatever its marker
Event_reacts_to(e) ==
    LET e_tags == VariantIndices(e.tags, "Event")
    IN IF e.kind # Reaction THEN None
       ELSE IF e_tags = {} THEN None
       ELSE Some(<<e.tags[MaxOf(e_tags)].id, e.content,
                   RelayOf(e.tags[MaxOf(e_tags)])>>)

\* Event::deletes keeping one id only
Event_deletes_first_only(e) ==
    LET e_tags == EventTagsOf(e.tags)
    IN IF e.kind # EventDeletion THEN None
       ELSE IF e_tags = <<>> THEN None
       ELSE Some(<<(<<e_tags[1].id>>), e.content>>)

\* Event::deletes (760-779)
Event_deletes(e) ==
    LET e_tags == EventTagsOf(e.tags)
        ids == [i \in 1..Len(e_tags) |-> e_tags[i].id]
    IN IF e.kind # EventDeletion THEN None
       ELSE IF ids = <<>> THEN None
       ELSE Some(<<ids, e.content>>)

\* The lightning invoices the model knows, by their text.  Invoice::from_str,
\* check_signature, payee_pub_key / recover_payee_pub_key and
\* amount_milli_satoshis are an external collaborator; any other text fails to
\* parse.
Invoices ==
    {[text |-> Str("lnbc-paid"), signed |-> TRUE, payee |-> PublicKeyOf("sk2"),
      key_ok |-> TRUE, amount |-> Some(1000)],
     [text |-> Str("lnbc-noamount"), signed |-> TRUE, payee |-> PublicKeyOf("sk2"),
      key_ok |-> TRUE, amount |-> None],
     [text |-> Str("lnbc-badsig"), signed |-> FALSE, payee |-> PublicKeyOf("sk2"),
      key_ok |-> TRUE, amount |-> Some(1000)],
     [text |-> Str("lnbc-badkey"), signed |-> TRUE, payee |-> PublicKeyOf("sk2"),
      key_ok |-> FALSE, amount |-> Some(1000)]}

\* Invoice::from_str
Invoice_from_str(text) ==
    IF \E inv \in Invoices : inv.text = text
    THEN Some(CHOOSE inv \in Invoices : inv.text = text)
    ELSE None

ZapData(id, amount, pubkey) == [id |-> id, amount |-> amount, pubkey |-> pubkey]
OkZap(z) == [ok |-> TRUE, zap |-> z]
ZapReceipt(reason) == Err(<<"ZapReceipt", reason>>)

\* the bolt11 branch of the loop of Event::zaps (798-844) for the tag t: the
\* error it returns, or the payee key and the amount it sets
Bolt11(t) ==
    LET parsed == Invoice_from_str(t.data[1])
        invoice == parsed[1]
    IN IF t.data = <<>> THEN ZapReceipt("missing bolt11 tag value")
       ELSE IF ~IsSome(parsed) THEN ZapReceipt("bolt11 failed to parse")
       ELSE IF ~invoice.signed THEN ZapReceipt("bolt11 signature check failed")
       ELSE IF ~invoice.key_ok THEN ZapReceipt("payee public key error")
       ELSE IF ~IsSome(invoice.amount)
            THEN ZapReceipt("Amount missing from zap receipt")
       ELSE [ok |-> TRUE, pubkey |-> invoice.payee, amount |-> invoice.amount[1]]

RECURSIVE ZapLoop(_, _, _, _, _)
\* the loop of Event::zaps (797-848) from tag i on, and lines 850-865 after it
ZapLoop(tags, i, zapped_id, zapped_amount, zapped_pubkey) ==
    IF i > Len(tags)
    THEN IF ~IsSome(zapped_id) THEN OkZap(None)
         ELSE IF ~IsSome(zapped_amount) THEN ZapReceipt("Missing amount")
         ELSE IF ~IsSome(zapped_pubkey) THEN ZapReceipt("Missing payee public key")
         ELSE OkZap(Some(ZapData(zapped_id[1], zapped_amount[1], zapped_pubkey[1])))
    ELSE IF tags[i].variant = "Other" /\ tags[i].tag = Str("bolt11")
         THEN IF ~Bolt11(tags[i]).ok THEN Bolt11(tags[i])
              ELSE ZapLoop(tags, i + 1, zapped_id, Some(Bolt11(tags[i]).amount),
                           Some(Bolt11(tags[i]).pubkey))
    ELSE IF tags[i].variant = "Event"
         THEN ZapLoop(tags, i + 1, Some(tags[i].id), zapped_amount, zapped_pubkey)
    ELSE ZapLoop(tags, i + 1, zapped_id, zapped_amount, zapped_pubkey)

\* Event::zaps without the test of the kind
Event_zaps_any_kind(e) == ZapLoop(e.tags, 1, None, None, None)

\* Event::zaps (788-866)
Event_zaps(e) ==
    IF e.kind # Zap THEN OkZap(None) ELSE ZapLoop(e.tags, 1, None, None, None)

\* EventDelegation
NotDelegated == [is |-> "NotDelegated"]
DelegatedBy(pubkey) == [is |-> "DelegatedBy", pubkey |-> pubkey]
InvalidDelegation(reason) == [is |-> "InvalidDelegation", reason |-> reason]

\* Signature::try_from_hex_string: 64 bytes of hex
Signature_try_from_hex_string(sig) ==
    IF SignatureHex_valid(sig) THEN Some(HexDecode(sig)) ELSE None

\* PublicKey::try_from_hex_string: 32 bytes of hex that are a key (the zero
\* bytes are none)
PublicKey_try_from_hex_string(pubkey) ==
    IF PublicKeyHex_valid(pubkey) /\ HexDecode(pubkey) # [i \in 1..IdLen |-> 0]
    THEN Some(HexDecode(pubkey))
    ELSE None

DelegationSig(b) == [i \in 1..(2 * IdLen) |-> b]
CondFull == Cond1 \o <<"&", "created_at<", "7">>
CondAfter == <<"created_at>", "5">>
CondKind == <<"kind=", "1">>

\* The delegation signatures that were ever generated
\* (DelegationConditions::generate_signature): who signed which condition
\* string for which delegatee.  No other signature verifies.
GeneratedSignatures ==
    {[sig |-> DelegationSig(1), signer |-> PublicKeyOf("sk2"),
      conditions |-> CondFull, delegatee |-> PublicKeyOf("sk1")],
     [sig |-> DelegationSig(2), signer |-> PublicKeyOf("sk2"),
      conditions |-> CondAfter, delegatee |-> PublicKeyOf("sk1")],
     [sig |-> DelegationSig(3), signer |-> PublicKeyOf("sk2"),
      conditions |-> CondKind, delegatee |-> PublicKeyOf("sk1")],
     [sig |-> DelegationSig(4), signer |-> PublicKeyOf("sk2"),
      conditions |-> CondFull, delegatee |-> PublicKeyOf("sk2")]}

\* DelegationConditions::verify_signature(delegator, delegatee, signature)
DelegationConditions_verify_signature(conditions, delegator, delegatee, signature) ==
    \E g \in GeneratedSignatures :
        /\ g.sig = signature /\ g.signer = delegator
        /\ g.conditions = DelegationConditions_as_string(conditions)
        /\ g.delegatee = delegatee

\* CheckDelegation with the bounds themselves outside the delegation
CheckDelegation_strict_bounds(e, t) ==
    LET signature == Signature_try_from_hex_string(t.sig)
        delegator_pubkey == PublicKey_try_from_hex_string(t.pubkey)
        conditions == t.conditions
    IN IF ~IsSome(signature) THEN InvalidDelegation("signature hex")
       ELSE IF ~IsSome(delegator_pubkey) THEN InvalidDelegation("public key hex")
       ELSE IF ~DelegationConditions_verify_signature(
                    conditions, delegator_pubkey[1], e.pubkey, signature[1])
            THEN InvalidDelegation("signature")
       ELSE IF IsSome(conditions.kind) /\ e.kind # conditions.kind[1]
            THEN InvalidDelegation("Event Kind not delegated")
       ELSE IF IsSome(conditions.created_after)
                /\ e.created_at <= conditions.created_after[1]
            THEN InvalidDelegation("Event created before delegation started")
       ELSE IF IsSome(conditions.created_before)
                /\ e.created_at >= conditions.created_before[1]
            THEN InvalidDelegation("Event created after delegation ended")
       ELSE DelegatedBy(delegator_pubkey[1])

\* lines 984-1023 of Event::delegation for the Delegation tag t
CheckDelegation(e, t) ==
    LET signature == Signature_try_from_hex_string(t.sig)
        delegator_pubkey == PublicKey_try_from_hex_string(t.pubkey)
        conditions == t.conditions
    IN IF ~IsSome(signature) THEN InvalidDelegation("signature hex")
       ELSE IF ~IsSome(delegator_pubkey) THEN InvalidDelegation("public key hex")
       ELSE IF ~DelegationConditions_verify_signature(
                    conditions, delegator_pubkey[1], e.pubkey, signature[1])
            THEN InvalidDelegation("signature")
       ELSE IF IsSome(conditions.kind) /\ e.kind # conditions.kind[1]
            THEN InvalidDelegation("Event Kind not delegated")
       ELSE IF IsSome(conditions.created_after)
                /\ e.created_at < conditions.created_after[1]
            THEN InvalidDelegation("Event created before delegation started")
       ELSE IF IsSome(conditions.created_before)
                /\ e.created_at > conditions.created_before[1]
            THEN InvalidDelegation("Event created after delegation ended")
       ELSE DelegatedBy(delegator_pubkey[1])

\* Event::delegation passing over a Delegation tag whose signature is no hex
Event_delegation_skipping(e) ==
    LET delegations ==
            {i \in VariantIndices(e.tags, "Delegation") :
                IsSome(Signature_try_from_hex_string(e.tags[i].sig))}
    IN IF delegations = {} THEN NotDelegated
       ELSE CheckDelegation(e, e.tags[MinOf(delegations)])

\* Event::delegation (974-1028): the first Delegation tag decides
Event_delegation(e) ==
    LET delegations == VariantIndices(e.tags, "Delegation")
    IN IF delegations = {} THEN NotDelegated
       ELSE CheckDelegation(e, e.tags[MinOf(delegations)])

-----------------------------------------------------------------------------
(* The read-only functions as a state machine: an event is received and    *)
(* the functions are called on it, in any order.                           *)

\* the longest tag list of a thread event, and of a zap receipt
MaxTags == 4
MaxZapTags == 2

ThreadId(b) == IdOfBytes([i \in 1..IdLen |-> b])

\* Event tags: two unmarked ones, and one each marked reply, root and mention
\* (the last with a relay url that is none); and a tag that is no Event tag
ThreadTags ==
    {EventTag(ThreadId(1), None, None),
     EventTag(ThreadId(2), Some(Url1), None),
     EventTag(ThreadId(3), None, Some(Str("reply"))),
     EventTag(ThreadId(4), None, Some(Str("root"))),
     EventTag(ThreadId(5), Some(EmptyStr), Some(Str("mention"))),
     Hashtag(Str("x"))}

ThreadEvents ==
    {ReceivedEvent(Id1, kind, 5, tl, Str("Hello World!")) :
        kind \in {TextNote, EventDeletion, Repost, Reaction},
        tl \in SeqsUpTo(ThreadTags, MaxTags)}

Bolt11Tag(data) == Other(Str("bolt11"), data)

ZapTags ==
    {EventTag(ThreadId(1), None, None), EventTag(ThreadId(2), Some(Url1), None),
     Bolt11Tag(<<>>), Bolt11Tag(<<Str("lnbc-paid")>>),
     Bolt11Tag(<<Str("lnbc-noamount")>>), Bolt11Tag(<<Str("lnbc-badsig")>>),
     Bolt11Tag(<<Str("lnbc-badkey")>>), Bolt11Tag(<<Str("garbage")>>),
     Other(Str("x"), <<>>)}

ZapEvents ==
    {ReceivedEvent(Id1, kind, 5, tl, Str("Hello World!")) :
        kind \in {Zap, TextNote}, tl \in SeqsUpTo(ZapTags, MaxZapTags)}

\* Delegation tags: the delegator's key, another key, the zero key, no hex;
\* conditions with a generated signature, with one for another delegatee, with
\* one for other conditions, and with no hex
DelegationTags ==
    {Delegation(pubkey, DelegationConditions_parse(c[1]), c[2]) :
        pubkey \in {Hex(PublicKeyOf("sk2")), Hex(PublicKeyOf("sk1")),
                    Hex([i \in 1..IdLen |-> 0]), Str("zz")},
        c \in {<<CondFull, Hex(DelegationSig(1))>>,
               <<CondAfter, Hex(DelegationSig(2))>>,
               <<CondKind, Hex(DelegationSig(3))>>,
               <<CondFull, Hex(DelegationSig(4))>>,
               <<CondFull, Hex(DelegationSig(2))>>,
               <<CondFull, Str("zz")>>}}

DelegationTagLists ==
    {<<>>, <<EventTag(ThreadId(1), None, None)>>}
    \cup {<<EventTag(ThreadId(1), None, None), d>> : d \in DelegationTags}
    \cup {<<d1, d2>> : d1, d2 \in
            {Delegation(Hex(PublicKeyOf("sk2")), DelegationConditions_parse(CondFull), sig) :
                sig \in {Hex(DelegationSig(1)), Str("zz")}}}

DelegationEvents ==
    {ReceivedEvent(Id1, kind, t, tl, Str("Hello World!")) :
        kind \in {TextNote, Reaction}, t \in 4..8, tl \in DelegationTagLists}

QueryInit ==
    /\ epc = "received"
    /\ \/ event \in PowEvents /\ overflow_checks \in BOOLEAN
       \/ /\ event \in ThreadEvents \cup ZapEvents \cup DelegationEvents
          /\ overflow_checks = FALSE
    /\ pre = None /\ privkey = None /\ built = None /\ maxtime = None
    /\ vres = NoResult /\ query = "" /\ qres = NoResult
    /\ zero_bits = 0 /\ sender = "none" /\ cores = 0 /\ input = None
    /\ mpc = "idle" /\ joined = 0 /\ wpc = <<>> /\ attempt = <<>> /\ lz = <<>>
    /\ quitting = FALSE /\ nonce = 0 /\ best_work = 0 /\ result = NoResult
    /\ TagIdle /\ sha = <<>>

\* a call of one of the functions on the event
Call(name, returned) ==
    /\ epc = "received"
    /\ query' = name
    /\ qres' = returned
    /\ UNCHANGED <<epc, pre, privkey, event, built, maxtime, vres, tagVars,
                   powVars, sha>>

Pow == Call("pow", Event_pow(event))
GetDelegation == Call("delegation", Returned(Event_delegation(event)))
RepliesTo == Call("replies_to", Returned(Event_replies_to(event)))
RepliesToRoot == Call("replies_to_root", Returned(Event_replies_to_root(event)))
Mentions == Call("mentions", Returned(Event_mentions(event)))
Deletes == Call("deletes", Returned(Event_deletes(event)))
Zaps == Call("zaps", Returned(Event_zaps(event)))
ReactsTo == Call("reacts_to", Returned(Event_reacts_to(event)))

QueryNext ==
    \/ Pow
    \/ GetDelegation
    \/ RepliesTo
    \/ RepliesToRoot
    \/ Mentions
    \/ Deletes
    \/ Zaps
    \/ ReactsTo

QuerySpec == QueryInit /\ [][QueryNext]_vars

-----------------------------------------------------------------------------
(* Claims about the read-only functions, checked under QuerySpec.          *)

\* the target the first Nonce tag of the event declares: a number of bits up
\* to 255, and 0 when there is no such tag or no such number in it
DeclaredTarget ==
    LET nonces == VariantIndices(event.tags, "Nonce")
        target == IF nonces = {} THEN None ELSE event.tags[MinOf(nonces)].target
    IN IF IsSome(target) /\ IsSome(ParseUnsigned(target[1], U8Max))
       THEN ParseUnsigned(target[1], U8Max)[1]
       ELSE 0

ActualZeroBits == CountZeroBits(event.id.bytes, 1)

\* C11: Event::pow returns the smaller of the number of leading zero bits of
\* the id and the target declared in the Nonce tag.
C11_PowIsMinimum ==
    query = "pow" =>
        qres = Returned(IF ActualZeroBits <= DeclaredTarget THEN ActualZeroBits
                        ELSE DeclaredTarget)

\* the event has a Delegation tag, and the first of them
HasDelegation == VariantIndices(event.tags, "Delegation") # {}
FirstDelegation == event.tags[MinOf(VariantIndices(event.tags, "Delegation"))]

\* the signature of the first Delegation tag verifies: both hex strings parse
\* and the delegator signed these conditions for the event's pubkey
DelegationVerifies ==
    /\ HasDelegation
    /\ IsSome(Signature_try_from_hex_string(FirstDelegation.sig))
    /\ IsSome(PublicKey_try_from_hex_string(FirstDelegation.pubkey))
    /\ DelegationConditions_verify_signature(
           FirstDelegation.conditions, HexDecode(FirstDelegation.pubkey),
           event.pubkey, HexDecode(FirstDelegation.sig))

KindRefused ==
    /\ IsSome(FirstDelegation.conditions.kind)
    /\ event.kind # FirstDelegation.conditions.kind[1]
TooEarly ==
    /\ IsSome(FirstDelegation.conditions.created_after)
    /\ event.created_at < FirstDelegation.conditions.created_after[1]
TooLate ==
    /\ IsSome(FirstDelegation.conditions.created_before)
    /\ event.created_at > FirstDelegation.conditions.created_before[1]

\* C12: when the signature of the Delegation tag verifies, delegation() is
\* InvalidDelegation("Event Kind not delegated") if a required kind differs
\* from the event's; else "Event created before delegation started" if
\* created_at is below the lower bound; else "Event created after delegation
\* ended" if it is above the upper bound; and DelegatedBy(the delegator's key)
\* exactly when every condition present passes.
C12_DelegationConditions ==
    (query = "delegation" /\ DelegationVerifies) =>
        /\ KindRefused =>
              qres = Returned(InvalidDelegation("Event Kind not delegated"))
        /\ (~KindRefused /\ TooEarly) =>
              qres = Returned(InvalidDelegation(
                         "Event created before delegation started"))
        /\ (~KindRefused /\ ~TooEarly /\ TooLate) =>
              qres = Returned(InvalidDelegation(
                         "Event created after delegation ended"))
        /\ (~KindRefused /\ ~TooEarly /\ ~TooLate) <=>
              qres = Returned(DelegatedBy(HexDecode(FirstDelegation.pubkey)))

\* delegated, at the lower bound itself
C12_Witness ==
    /\ query = "delegation" /\ DelegationVerifies
    /\ IsSome(FirstDelegation.conditions.created_after)
    /\ event.created_at = FirstDelegation.conditions.created_after[1]
    /\ qres = Returned(DelegatedBy(PublicKeyOf("sk2")))

\* C13: delegation() is NotDelegated exactly when the event has no Delegation
\* tag; when the Delegation tag it finds has a public key or a signature that
\* is no valid hex, or a signature that does not verify, the call returns
\* InvalidDelegation.
C13_NotDelegatedIffNoTag ==
    query = "delegation" =>
        /\ qres # Panicked
        /\ qres = Returned(NotDelegated) <=> ~HasDelegation
        /\ (HasDelegation /\ ~DelegationVerifies) =>
              qres.returned.is = "InvalidDelegation"

C13_Witness ==
    /\ query = "delegation" /\ HasDelegation
    /\ ~IsSome(Signature_try_from_hex_string(FirstDelegation.sig))
    /\ qres.returned.is = "InvalidDelegation"

\* positions of the event's Event tags, of those without a marker, and of
\* those with a given marker
EventPositions == VariantIndices(event.tags, "Event")
UnmarkedPositions == {i \in EventPositions : event.tags[i].marker = None}
PositionsMarked(marker) ==
    {i \in EventPositions : event.tags[i].marker = Some(Str(marker))}
ReferredAt(i) == Some(<<event.tags[i].id, RelayOf(event.tags[i])>>)

\* C14: on a feed-displayable event that is no repost, replies_to returns the
\* first Event tag marked 'reply'; else the first marked 'root'; else the last
\* unmarked Event tag if there is any unmarked Event tag, whatever Event tags
\* with other markers follow it; and nothing only when there is no Event tag
\* or each of them has some other marker.
C14_RepliesToOrder ==
    (/\ query = "replies_to"
     /\ EventKind_is_feed_displayable(event.kind) /\ event.kind # Repost) =>
        qres = Returned(
            IF PositionsMarked("reply") # {}
                THEN ReferredAt(MinOf(PositionsMarked("reply")))
            ELSE IF PositionsMarked("root") # {}
                THEN ReferredAt(MinOf(PositionsMarked("root")))
            ELSE IF UnmarkedPositions # {}
                THEN ReferredAt(MaxOf(UnmarkedPositions))
            ELSE None)

\* C15: on a feed-displayable event, replies_to_root returns the first Event
\* tag marked 'root', otherwise the first unmarked Event tag, whatever Event
\* tags with other markers precede it; on any other kind it returns nothing.
C15_RepliesToRootOrder ==
    query = "replies_to_root" =>
        qres = Returned(
            IF ~EventKind_is_feed_displayable(event.kind) THEN None
            ELSE IF PositionsMarked("root") # {}
                THEN ReferredAt(MinOf(PositionsMarked("root")))
            ELSE IF UnmarkedPositions # {}
                THEN ReferredAt(MinOf(UnmarkedPositions))
            ELSE None)

\* the event is feed-displayable and no repost, and has exactly three Event
\* tags: one marked 'root', one 'mention', one 'reply'
RootMentionReply ==
    /\ EventKind_is_feed_displayable(event.kind) /\ event.kind # Repost
    /\ Cardinality(EventPositions) = 3
    /\ \A marker \in {"root", "mention", "reply"} :
          Cardinality(PositionsMarked(marker)) = 1

\* C16: with exactly three Event tags marked root, mention and reply, in any
\* order and with other tags between them, replies_to returns the id of the
\* one marked 'reply' and replies_to_root the id of the one marked 'root'.
C16_ReplyPrecedence ==
    RootMentionReply =>
        /\ query = "replies_to" =>
              /\ qres.returned # None
              /\ \A i \in PositionsMarked("reply") :
                    qres.returned[1][1] = event.tags[i].id
        /\ query = "replies_to_root" =>
              /\ qres.returned # None
              /\ \A i \in PositionsMarked("root") :
                    qres.returned[1][1] = event.tags[i].id

\* the reply asked of an event whose tags are root, another tag, mention, reply
C16_Witness ==
    /\ RootMentionReply /\ query = "replies_to"
    /\ Len(event.tags) = 4
    /\ PositionsMarked("root") = {1} /\ PositionsMarked("mention") = {3}
    /\ PositionsMarked("reply") = {4}
    /\ qres = Returned(ReferredAt(4))

\* the unmarked Event tags that are neither the first nor the last Event tag
InteriorUnmarked ==
    {i \in UnmarkedPositions :
        i # MinOf(EventPositions) /\ i # MaxOf(EventPositions)}

\* the tags the event mentions
MentionPositions ==
    IF ~EventKind_is_feed_displayable(event.kind) THEN {}
    ELSE IF event.kind = Repost THEN EventPositions
    ELSE PositionsMarked("mention")
         \cup (IF Cardinality(EventPositions) > 2 THEN InteriorUnmarked ELSE {})

\* C17: mentions returns every Event tag of a repost; of another
\* feed-displayable event exactly the Event tags marked 'mention' and, when
\* there are more than two Event tags, the unmarked ones that are neither the
\* first nor the last of them; and nothing for any other kind.  Each such tag
\* is in the list once, and nothing else is.
C17_MentionsExactly ==
    query = "mentions" =>
        /\ Len(qres.returned) = Cardinality(MentionPositions)
        /\ \A i \in MentionPositions :
              Cardinality({k \in DOMAIN qres.returned :
                              Some(qres.returned[k]) = ReferredAt(i)})
              = Cardinality({j \in MentionPositions :
                                ReferredAt(j) = ReferredAt(i)})

\* a note with a 'mention' tag and an unmarked tag between two others
C17_Witness ==
    /\ query = "mentions" /\ event.kind = TextNote
    /\ PositionsMarked("mention") # {}
    /\ Cardinality(EventPositions) > 2 /\ InteriorUnmarked # {}
    /\ UnmarkedPositions # InteriorUnmarked
    /\ Len(qres.returned) = 2

\* C18: zaps on a zap receipt without an Event tag returns Ok(None), whatever
\* its other tags are: also a bolt11 tag with no value, or with an invoice
\* that does not parse or does not verify.
C18_NoEventTagIsNoError ==
    (query = "zaps" /\ event.kind = Zap /\ EventPositions = {}) =>
        qres = Returned(OkZap(None))

\* positions of the bolt11 tags, and the invoices they hold that parse, verify
\* and give a payee key and an amount
Bolt11Positions ==
    {i \in VariantIndices(event.tags, "Other") : event.tags[i].tag = Str("bolt11")}
PaidInvoices ==
    {inv \in Invoices :
        /\ inv.signed /\ inv.key_ok /\ IsSome(inv.amount)
        /\ \E i \in Bolt11Positions : event.tags[i].data = <<inv.text>>}

\* C19: zaps returns Ok(Some(ZapData)) only on a zap receipt for which the id
\* of an Event tag, the amount of an invoice and the key of its payee were all
\* obtained, and the ZapData holds these; a zap receipt with an Event tag and
\* no bolt11 tag gives an error; any other kind gives Ok(None).
C19_ZapDataNeedsAll ==
    query = "zaps" =>
        /\ (qres.returned.ok /\ qres.returned.zap # None) =>
              /\ event.kind = Zap
              /\ \E i \in EventPositions :
                    qres.returned.zap[1].id = event.tags[i].id
              /\ \E inv \in PaidInvoices :
                    /\ qres.returned.zap[1].amount = inv.amount[1]
                    /\ qres.returned.zap[1].pubkey = inv.payee
        /\ (event.kind = Zap /\ EventPositions # {} /\ Bolt11Positions = {}) =>
              ~qres.returned.ok
        /\ event.kind # Zap => qres = Returned(OkZap(None))

\* a zap receipt that names a note and holds a paid invoice
C19_Witness ==
    /\ query = "zaps" /\ event.kind = Zap
    /\ qres = Returned(OkZap(Some(
           ZapData(ThreadId(1), 1000, PublicKeyOf("sk2")))))

\* C20: deletes returns nothing unless the event is a deletion and has an Event
\* tag; then it returns the ids of all its Event tags, in the order of the
\* tags, and the content of the event.
C20_DeletesAllIds ==
    query = "deletes" =>
        IF event.kind # EventDeletion \/ EventPositions = {}
        THEN qres = Returned(None)
        ELSE /\ qres.returned # None
             /\ qres.returned[1][2] = event.content
             /\ Len(qres.returned[1][1]) = Cardinality(EventPositions)
             /\ \A k \in DOMAIN qres.returned[1][1] :
                   \E i \in EventPositions :
                      /\ Cardinality({j \in EventPositions : j <= i}) = k
                      /\ qres.returned[1][1][k] = event.tags[i].id

\* a deletion of two notes, with another tag between their Event tags
C20_Witness ==
    /\ query = "deletes" /\ event.kind = EventDeletion
    /\ \E i, j \in EventPositions :
          /\ i + 1 < j
          /\ event.tags[i].id # event.tags[j].id
          /\ qres.returned # None
          /\ qres.returned[1][1] = <<event.tags[i].id, event.tags[j].id>>

\* C21: reacts_to returns nothing unless the event is a reaction; for a
\* reaction it returns the id of the last Event tag, whatever its marker, and
\* the content of the event; and nothing when it has no Event tag.
C21_ReactsToLast ==
    query = "reacts_to" =>
        IF event.kind # Reaction \/ EventPositions = {}
        THEN qres = Returned(None)
        ELSE /\ qres.returned # None
             /\ qres.returned[1][1] = event.tags[MaxOf(EventPositions)].id
             /\ qres.returned[1][2] = event.content

\* a reaction whose last Event tag is marked and follows an unmarked one
C21_Witness ==
    /\ query = "reacts_to" /\ event.kind = Reaction
    /\ UnmarkedPositions # {}
    /\ MaxOf(EventPositions) \in PositionsMarked("mention")
    /\ qres.returned # None
    /\ qres.returned[1][1] = ThreadId(5)

\* no two Event tags of the event refer to the same id and relay, so that a
\* returned pair names one tag position
DistinctReferences ==
    \A i, j \in EventPositions : i # j => ReferredAt(i) # ReferredAt(j)

\* C30: on a feed-displayable event that is no repost, the tag that replies_to
\* selects and the tag that replies_to_root selects are not among the tags
\* that mentions reports, and mentions reports no tag twice.
C30_RepliesAreNoMentions ==
    (/\ query = "mentions" /\ DistinctReferences
     /\ EventKind_is_feed_displayable(event.kind) /\ event.kind # Repost) =>
        /\ \A k \in DOMAIN qres.returned :
              /\ Some(qres.returned[k]) # Event_replies_to(event)
              /\ Some(qres.returned[k]) # Event_replies_to_root(event)
        /\ \A k, l \in DOMAIN qres.returned :
              k # l => qres.returned[k] # qres.returned[l]

\* a note with a reply, a root that is another tag, and two mentions
C30_Witness ==
    /\ query = "mentions" /\ DistinctReferences /\ event.kind = TextNote
    /\ Event_replies_to(event) # None
    /\ Event_replies_to_root(event) # None
    /\ Event_replies_to(event) # Event_replies_to_root(event)
    /\ Len(qres.returned) = 2

\* C22: ots is not covered by the hash: Event::new gives the PreEvent the
\* same id whatever its ots, and verify gives the same result whatever ots
\* the event is given.
C22_OtsNotHashed ==
    epc = "built" =>
        /\ \A ots \in OptOts :
              Event_new([pre EXCEPT !.ots = ots], privkey).id = built.id
        /\ vres # NoResult =>
              \A ots \in OptOts :
                 Event_verify([event EXCEPT !.ots = ots], maxtime) = vres

\* the ots of a built event was changed, nothing else, and it still verifies
C22_Witness ==
    /\ epc = "built" /\ Changed(event) = {"ots"}
    /\ vres = OkUnit

-----------------------------------------------------------------------------
(* Further claims about Event::new_with_pow.                               *)

\* the winning-nonce slot holds what worker d stored: d is between its store
\* and its exit, or quit is raised and the slot holds d's attempt (the
\* workers' attempts are from disjoint ranges)
StoredNonce(d) ==
    \/ wpc[d] \in {"store_quitting", "send_found"}
    \/ quitting /\ nonce = attempt[d]

\* C23: exactly one worker writes the winning-nonce slot: once a worker has
\* stored its attempt there, no other worker stores into the slot.
C23_SingleWriter ==
    [][\A c \in DOMAIN wpc :
          (wpc[c] = "store_nonce" /\ wpc'[c] = "store_quitting") =>
              \A d \in DOMAIN wpc \ {c} : ~StoredNonce(d)]_vars

\* C25: a worker ends only by seeing the quit flag or by raising it itself;
\* nothing else ends one, a failed send on the progress channel included, so
\* new_with_pow does not finalize while the quit flag is still false.
C25_CooperativeExitOnly ==
    /\ \A c \in DOMAIN wpc : wpc[c] # "panicked"
    /\ mpc = "done" => quitting

\* the digest worker c counted the leading zero bits of
LastDigest(c) == sha[HashedText(WithNonce(input, attempt[c]))]

\* C27: for every id, the id of 32 zero bytes included, get_leading_zero_bits
\* returns the number of zero bits before the first one bit, without overflow
\* or wrap of its 8-bit result.
C27_LeadingZeroBitsExact ==
    \A c \in DOMAIN wpc :
        wpc[c] \in {"store_nonce", "load_best", "panicked"} =>
            lz[c] = CountZeroBits(LastDigest(c), 1)

\* C28: the best-work counter never decreases, whatever the interleaving of
\* the workers: no worker stores a smaller value than the counter holds.
C28_BestWorkMonotonic == [][best_work' >= best_work]_vars

\* the tags of the input PreEvent that are no Nonce tags, in their order
KeptTags == SelectSeq(pre.tags, LAMBDA t : t.variant # "Nonce")

\* C26: the event new_with_pow returns has exactly one Nonce tag, as its last
\* tag, with the decimal string of zero_bits as target; the Nonce tags of the
\* input are gone and its other tags are kept in their order; pubkey,
\* created_at, kind, content and ots are those of the input.
C26_OnlyNonceTagReplaced ==
    mpc = "done" =>
        /\ result.ok
        /\ Len(result.event.tags) = Len(KeptTags) + 1
        /\ SubSeq(result.event.tags, 1, Len(KeptTags)) = KeptTags
        /\ VariantIndices(result.event.tags, "Nonce") = {Len(result.event.tags)}
        /\ result.event.tags[Len(result.event.tags)].target = Some(Dec(zero_bits))
        /\ \A f \in {"pubkey", "created_at", "kind", "content", "ots"} :
              result.event[f] = pre[f]

\* mined with a target of 9 bits from an input with two Nonce tags of its own
C26_Witness ==
    /\ mpc = "done" /\ result.ok /\ zero_bits = 9
    /\ Cardinality(VariantIndices(pre.tags, "Nonce")) = 2
    /\ Len(KeptTags) = 2
    /\ result.event.tags[3] = Nonce(Dec(nonce), Some(<<"9">>))

\* every worker thread has ended
AllExited == \A c \in DOMAIN wpc : wpc[c] \in {"done", "panicked"}

\* C24: once a worker has raised the quit flag, every worker leaves its loop
\* (each reads the flag once per attempt, and the threads are scheduled
\* fairly); and new_with_pow writes the nonce tag, hashes and signs only after
\* it has joined all workers: none is running when the final event is built.
C24_QuitStopsAllBeforeFinal ==
    /\ (quitting ~> AllExited)
    /\ [](mpc = "done" => (joined = cores /\ AllExited))

\* two workers, one raised the flag and the other left on seeing it
C24_Witness ==
    /\ mpc = "done" /\ cores >= 2 /\ quitting /\ AllExited
    /\ \E c \in DOMAIN wpc :
          /\ wpc[c] = "done" /\ nonce # attempt[c]
          /\ lz[c] # PanicLz /\ lz[c] < zero_bits

-----------------------------------------------------------------------------
(* A further claim about the tag codec, checked under TagSpec.             *)

\* C29: encoding a decoded tag gives back the array it was decoded from, for
\* every array of strings that decodes without error; so verify, which
\* serializes the decoded tags again, hashes what the sender signed.
C29_ReencodeIsWire ==
    (ReceivedDecoded /\ decoded.ok) => Tag_serialize(decoded.tag) = wire

=============================================================================
